---- MODULE Spec2Model ----
(***************************************************************************)
(* bukuserver/forms.py: the API forms (ApiTagForm, ApiBookmarkCreateForm,  *)
(* ApiBookmarkEditForm, ApiBookmarkRangeEditForm) and their process_data.  *)
(*                                                                         *)
(* One behaviour follows one form instance through a sequence of           *)
(* process_data calls.  Python values are records of a fixed shape; a      *)
(* string is the sequence of its characters.                               *)
(***************************************************************************)
EXTENDS Integers, Sequences, FiniteSets, TLC

\* Number of process_data calls made on the one instance.
MaxCalls == 2

----------------------------------------------------------------------------
\* Python values.  t is the type, s the characters of a str, n the number of
\* an int/bool (for a dict or a nested list: its number of entries), items
\* the elements of a list.

PyNone == [t |-> "None", s |-> <<>>, n |-> 0]
PyStr(chars) == [t |-> "str", s |-> chars, n |-> 0]
PyInt(k) == [t |-> "int", s |-> <<>>, n |-> k]
PyBool(b) == [t |-> "bool", s |-> <<>>, n |-> IF b THEN 1 ELSE 0]

\* A key that the mapping does not have.
Absent == [t |-> "absent", s |-> <<>>, n |-> 0, items |-> <<>>]
Top(v) == [t |-> v.t, s |-> v.s, n |-> v.n, items |-> <<>>]
PyList(elems) == [t |-> "list", s |-> <<>>, n |-> 0, items |-> elems]
PyDict(k) == [t |-> "dict", s |-> <<>>, n |-> k, items |-> <<>>]

\* buku.DELIM, the reserved tag delimiter.
DELIM == ","

\* bool(v)
Truthy(v) ==
    CASE v.t = "None" -> FALSE
      [] v.t = "absent" -> FALSE
      [] v.t = "str" -> Len(v.s) > 0
      [] v.t = "list" -> IF "items" \in DOMAIN v THEN Len(v.items) > 0 ELSE v.n > 0
      [] OTHER -> v.n # 0

\* data.get(key)
Get(d, key) == IF d[key].t = "absent" THEN Top(PyNone) ELSE d[key]

\* str.strip() leaves nothing
IsBlank(chars) == \A i \in 1..Len(chars) : chars[i] = " "

\* DELIM in str
HasDelim(chars) == \E i \in 1..Len(chars) : chars[i] = DELIM

----------------------------------------------------------------------------
\* Validators.  Each yields the sequence of messages it raises (empty: passes).

validate_tag_NoDelimCheck(fdata) ==
    IF fdata.t # "str" THEN <<"Tag must be a string.">> ELSE <<>>

validate_tag_NoTypeCheck(fdata) ==
    IF fdata.t = "str" /\ HasDelim(fdata.s)
    THEN <<"Tag must not contain delimiter.">> ELSE <<>>

validate_tag(fdata) ==
    IF fdata.t # "str" THEN <<"Tag must be a string.">>
    ELSE IF HasDelim(fdata.s) THEN <<"Tag must not contain delimiter.">>
    ELSE <<>>

\* wtforms DataRequired: truthy data, and a str must not be blank.
DataRequired(fdata) ==
    IF Truthy(fdata) /\ (fdata.t # "str" \/ ~IsBlank(fdata.s))
    THEN <<>> ELSE <<"This field is required.">>

----------------------------------------------------------------------------
\* The form classes and their declared fields.

ApiTagForm == "ApiTagForm"
ApiBookmarkCreateForm == "ApiBookmarkCreateForm"
ApiBookmarkEditForm == "ApiBookmarkEditForm"
ApiBookmarkRangeEditForm == "ApiBookmarkRangeEditForm"

Forms == {ApiTagForm, ApiBookmarkCreateForm, ApiBookmarkEditForm,
          ApiBookmarkRangeEditForm}

\* Validators of each entry of the tags FieldList.
tags_validators(cls) ==
    IF cls = ApiTagForm THEN <<"DataRequired", "validate_tag">>
    ELSE <<"validate_tag">>

tags_min_entries_AllOne(cls) == 1

\* min_entries of the tags FieldList.
tags_min_entries(cls) == IF cls = ApiTagForm THEN 1 ELSE 0

url_validators_EditRequired(cls) ==
    IF cls = ApiTagForm THEN <<>> ELSE <<"DataRequired">>

\* Validators of the url StringField (ApiTagForm declares no url).
url_validators(cls) ==
    IF cls = ApiBookmarkCreateForm THEN <<"DataRequired">> ELSE <<>>

has_url(cls) == cls # ApiTagForm
has_del_tags(cls) == cls = ApiBookmarkRangeEditForm

\* wtforms Field._run_validation_chain: a ValidationError is recorded and the
\* chain goes on, DataRequired's StopValidation is recorded and ends it.
RECURSIVE run_validation_chain(_, _)
run_validation_chain(validators, fdata) ==
    IF validators = <<>> THEN <<>>
    ELSE LET v == Head(validators)
             e == IF v = "DataRequired" THEN DataRequired(fdata)
                  ELSE validate_tag(fdata)
         IN IF v = "DataRequired" /\ e # <<>> THEN e
            ELSE e \o run_validation_chain(Tail(validators), fdata)

\* wtforms FieldList.process with no formdata: falsy or unset data is replaced
\* by the default (), then entries with data None are added up to min_entries.
RECURSIVE pad_entries(_, _)
pad_entries(entries, min_entries) ==
    IF Len(entries) >= min_entries THEN entries
    ELSE pad_entries(Append(entries, PyNone), min_entries)

FieldList_process(cls, v) ==
    pad_entries(IF Truthy(v) THEN v.items ELSE <<>>, tags_min_entries(cls))

\* wtforms StringField.process with no formdata: the data as given, None when
\* the key is absent.
StringField_process(v) == IF v.t = "absent" THEN PyNone ELSE v

\* wtforms BooleanField.process with no formdata: bool(data), default False.
BooleanField_process(v) == IF v.t = "absent" THEN FALSE ELSE Truthy(v)

\* Form.errors after validate(): the fields that have errors, each with the
\* set of its messages.
Range(f) == {f[i] : i \in DOMAIN f}

form_errors(cls, d) ==
    LET entries == FieldList_process(cls, d.tags)
        tagmsgs == UNION {Range(run_validation_chain(tags_validators(cls), entries[i]))
                            : i \in DOMAIN entries}
        urlmsgs == IF has_url(cls)
                   THEN Range(run_validation_chain(url_validators(cls),
                                                   StringField_process(d.url)))
                   ELSE {}
        bad == (IF tagmsgs # {} THEN {"tags"} ELSE {})
               \cup (IF urlmsgs # {} THEN {"url"} ELSE {})
    IN [f \in bad |-> IF f = "tags" THEN tagmsgs ELSE urlmsgs]

----------------------------------------------------------------------------
\* DELIM.join(tags) and buku.parse_tags.

\* What iterating the tags value yields; an int or a bool is not iterable.
Iterable(tags) == tags.t \in {"list", "str", "dict"}
Elements(tags) ==
    IF tags.t = "list" THEN tags.items
    ELSE IF tags.t = "str" THEN [i \in 1..Len(tags.s) |-> PyStr(<<tags.s[i]>>)]
    ELSE <<>>

\* str.join raises TypeError on a non-iterable and on a non-str element.
join_raises(tags) ==
    ~Iterable(tags) \/ \E i \in DOMAIN Elements(tags) : Elements(tags)[i].t # "str"

RECURSIVE Join_Reversed(_)
Join_Reversed(elems) ==
    IF elems = <<>> THEN <<>>
    ELSE IF Len(elems) = 1 THEN elems[1].s
    ELSE Join_Reversed(Tail(elems)) \o <<DELIM>> \o elems[1].s

RECURSIVE Join(_)
Join(elems) ==
    IF elems = <<>> THEN <<>>
    ELSE IF Len(elems) = 1 THEN elems[1].s
    ELSE elems[1].s \o <<DELIM>> \o Join(Tail(elems))

\* buku.parse_tags applied to the one joined string: the normalized string is
\* the joined string.
parse_tags(keywords) == PyStr(keywords[1])

----------------------------------------------------------------------------
\* Return values: (None, None), (Response.INPUT_NOT_VALID, {'errors': ...}),
\* or a TypeError raised out of the call.  "init": no call made yet.

NoErrors == [f \in {} |-> {}]
RetInit == [code |-> "init", errors |-> NoErrors]
RetOk == [code |-> "None", errors |-> NoErrors]
RetInvalid(errs) == [code |-> "INPUT_NOT_VALID", errors |-> errs]
RetRaise == [code |-> "TypeError", errors |-> NoErrors]
ListExpected == [f \in {"tags"} |-> {"List of tags expected."}]

----------------------------------------------------------------------------
\* The mappings given to process_data.

\* Values offered as one tag: two plain tags, a tag that is the delimiter, the
\* empty string, and a number.
TagValues == {PyStr(<<"a">>), PyStr(<<"b">>), PyStr(<<DELIM>>), PyStr(<<>>),
              PyInt(5)}

\* Lists of no, one and two tags.
TagLists == {<<>>} \cup {<<x>> : x \in TagValues}
                   \cup {<<x, y>> : x \in TagValues, y \in TagValues}

\* The 'tags' entry: absent, a list, or something that is no list (a str, the
\* empty str, 0, an empty dict).  An explicit None reads like an absent key
\* in data.get and in Form.process alike.
TagsInputs == {Absent, Top(PyStr(<<"a">>)), Top(PyStr(<<>>)),
               Top(PyInt(0)), PyDict(0)}
              \cup {PyList(l) : l \in TagLists}

UrlInputs == {Absent, Top(PyStr(<<>>)), Top(PyStr(<<"u">>))}
DelTagsInputs == {Absent, Top(PyBool(TRUE)), Top(PyBool(FALSE))}

\* Keys the form declares no field for are ignored by Form.process, so they
\* are left out of the mapping.
Inputs(cls) ==
    [tags : TagsInputs,
     url : IF has_url(cls) THEN UrlInputs ELSE {Absent},
     del_tags : IF has_del_tags(cls) THEN DelTagsInputs ELSE {Absent}]

----------------------------------------------------------------------------
\* State: one form instance.

VARIABLES
    form,           \* the class of the instance
    tags_str,       \* self.tags_str
    tags_in,        \* self.tags_in (ApiBookmarkRangeEditForm)
    del_tags_data,  \* self.del_tags.data (ApiBookmarkRangeEditForm)
    data,           \* the argument of the last process_data call
    ret,            \* what the last process_data call returned or raised
    calls           \* number of process_data calls made

vars == <<form, tags_str, tags_in, del_tags_data, data, ret, calls>>

NoData == [tags |-> Absent, url |-> Absent, del_tags |-> Absent]

\* After construction: the class attributes tags_str = None and tags_in = None;
\* del_tags.data is False by default, or what the constructor read from the
\* request.
Init ==
    /\ form \in Forms
    /\ tags_str = PyNone
    /\ tags_in = PyNone
    /\ del_tags_data \in (IF has_del_tags(form) THEN BOOLEAN ELSE {FALSE})
    /\ data = NoData
    /\ ret = RetInit
    /\ calls = 0

\* ApiTagForm.process_data as a function of the instance and the argument:
\* the new tags_str, the new del_tags.data and the result.
base_process_data(cls, self_tags_str, self_del, d) ==
    LET tags == Get(d, "tags")
        processed_del == IF has_del_tags(cls) THEN BooleanField_process(d.del_tags)
                         ELSE self_del
        errs == form_errors(cls, d)
    IN IF Truthy(tags) /\ tags.t # "list"
       THEN [tags_str |-> self_tags_str, del |-> self_del,
             ret |-> RetInvalid(ListExpected)]
       ELSE IF DOMAIN errs # {}
       THEN [tags_str |-> self_tags_str, del |-> processed_del,
             ret |-> RetInvalid(errs)]
       ELSE IF tags.t = "None"
       THEN [tags_str |-> PyNone, del |-> processed_del, ret |-> RetOk]
       ELSE IF join_raises(tags)
       THEN [tags_str |-> self_tags_str, del |-> processed_del, ret |-> RetRaise]
       ELSE [tags_str |-> parse_tags(<<Join(Elements(tags))>>),
             del |-> processed_del, ret |-> RetOk]

Sign_Swapped(del) == IF del THEN "+" ELSE "-"

\* "-" if self.del_tags.data else "+"
Sign(del) == IF del THEN "-" ELSE "+"

\* process_data of an instance of ApiTagForm, ApiBookmarkCreateForm or
\* ApiBookmarkEditForm.
ApiTagForm_process_data ==
    /\ calls < MaxCalls
    /\ form # ApiBookmarkRangeEditForm
    /\ \E d \in Inputs(form) :
         LET r == base_process_data(form, tags_str, del_tags_data, d)
         IN /\ tags_str' = r.tags_str
            /\ del_tags_data' = r.del
            /\ ret' = r.ret
            /\ data' = d
    /\ calls' = calls + 1
    /\ UNCHANGED <<form, tags_in>>

\* ApiBookmarkRangeEditForm.process_data: the base step, then tags_in from
\* whatever tags_str now is; a TypeError of the base step leaves the method.
ApiBookmarkRangeEditForm_process_data ==
    /\ calls < MaxCalls
    /\ form = ApiBookmarkRangeEditForm
    /\ \E d \in Inputs(form) :
         LET r == base_process_data(form, tags_str, del_tags_data, d)
         IN /\ tags_str' = r.tags_str
            /\ del_tags_data' = r.del
            /\ ret' = r.ret
            /\ data' = d
            /\ tags_in' = IF r.ret.code # "TypeError" /\ r.tags_str.t # "None"
                          THEN PyStr(<<Sign(r.del)>> \o r.tags_str.s)
                          ELSE tags_in
    /\ calls' = calls + 1
    /\ UNCHANGED form

Next ==
    \/ ApiTagForm_process_data
    \/ ApiBookmarkRangeEditForm_process_data

Spec == Init /\ [][Next]_vars

----------------------------------------------------------------------------
\* Vocabulary of the properties.

Called == calls > 0

IsPlainTag(e) == e.t = "str" /\ ~HasDelim(e.s)
TagList == data.tags.t = "list"
TagItems == data.tags.items
TagsOmitted == data.tags.t = "absent"

\* The url passes the rule the form declares for it.
UrlMissingOrEmpty == data.url.t = "absent" \/ (data.url.t = "str" /\ data.url.s = <<>>)
UrlValid == form = ApiBookmarkCreateForm => ~UrlMissingOrEmpty

\* The tags in the order given, a delimiter between neighbours.
RECURSIVE InOrder(_)
InOrder(elems) ==
    IF elems = <<>> THEN <<>>
    ELSE elems[1].s \o (IF Len(elems) = 1 THEN <<>> ELSE <<DELIM>> \o InOrder(Tail(elems)))

TypeMismatch == ret = [code |-> "INPUT_NOT_VALID",
                       errors |-> [f \in {"tags"} |-> {"List of tags expected."}]]
InvalidOn(field) == ret.code = "INPUT_NOT_VALID" /\ field \in DOMAIN ret.errors

----------------------------------------------------------------------------
\* C1: whenever the 'tags' entry is present and is not a list, process_data
\* returns the type-mismatch error ('List of tags expected.'), whatever the
\* non-list value and the other fields.
C1_NonListIsTypeMismatch ==
    (Called /\ ~TagsOmitted /\ ~TagList) => TypeMismatch

C3_SignThenTagsStr ==
    (Called /\ form = ApiBookmarkRangeEditForm /\ ret = RetOk
        /\ Get(data, "tags").t # "None")
    => /\ tags_str.t = "str"
       /\ tags_in = PyStr(<<IF data.del_tags.t = "bool" /\ data.del_tags.n = 1
                            THEN "-" ELSE "+">> \o tags_str.s)

C3_Witness ==
    /\ form = ApiBookmarkRangeEditForm /\ ret = RetOk
    /\ data.del_tags = Top(PyBool(TRUE))
    /\ data.tags = PyList(<<PyStr(<<"a">>), PyStr(<<"b">>)>>)
    /\ tags_in = PyStr(<<"-", "a", ",", "b">>)

\* C4 as stated: on a fresh form of any API class, a mapping without 'tags'
\* and with valid other fields returns (None, None) and leaves tags_str and
\* tags_in None.
C4_OmittedTagsAllForms ==
    (calls = 1 /\ TagsOmitted /\ UrlValid)
    => (ret = RetOk /\ tags_str = PyNone /\ tags_in = PyNone)

\* C4 amended: that holds of the three bookmark forms; ApiTagForm returns
\* INPUT_NOT_VALID with a 'tags' error and also leaves tags_str None.
C4_OmittedTags ==
    (calls = 1 /\ TagsOmitted /\ UrlValid)
    => /\ tags_str = PyNone /\ tags_in = PyNone
       /\ form # ApiTagForm => ret = RetOk
       /\ form = ApiTagForm => InvalidOn("tags")

C4_Witness ==
    /\ calls = 1 /\ TagsOmitted /\ form = ApiBookmarkCreateForm
    /\ data.url = Top(PyStr(<<"u">>)) /\ ret = RetOk /\ tags_str = PyNone

\* C5: a tag containing DELIM is rejected: validate_tag raises for it, and a
\* process_data call whose tags list has such an element returns
\* INPUT_NOT_VALID and leaves tags_str as it was.
C5_DelimiterRejected ==
    [][(calls' = calls + 1 /\ data'.tags.t = "list"
          /\ \E i \in DOMAIN data'.tags.items :
                data'.tags.items[i].t = "str" /\ HasDelim(data'.tags.items[i].s))
       => /\ ret'.code = "INPUT_NOT_VALID"
          /\ "tags" \in DOMAIN ret'.errors
          /\ tags_str' = tags_str]_vars

C5_Witness ==
    /\ Called /\ InvalidOn("tags") /\ TagList
    /\ \E i \in DOMAIN TagItems : TagItems[i] = PyStr(<<DELIM>>)
    /\ \E i \in DOMAIN TagItems : TagItems[i] = PyStr(<<"a">>)
    /\ "Tag must not contain delimiter." \in ret.errors["tags"]

\* C6: a process_data call whose tags list has an element that is not a
\* string returns INPUT_NOT_VALID with a 'tags' error (the join is not
\* reached).
C6_NonStringRejected ==
    (Called /\ TagList /\ \E i \in DOMAIN TagItems : TagItems[i].t # "str")
    => InvalidOn("tags")

C6_Witness ==
    /\ Called /\ form = ApiBookmarkCreateForm /\ TagList
    /\ \E i \in DOMAIN TagItems : TagItems[i] = PyInt(5)
    /\ InvalidOn("tags") /\ "Tag must be a string." \in ret.errors["tags"]

\* C7: every process_data call returns (None, None) or
\* (INPUT_NOT_VALID, {'errors': non-empty map}), and (None, None) exactly when
\* the tags entry passes the list check (it is not a truthy non-list) and
\* every field passes its rule.
C7_TwoReturnShapes ==
    Called =>
      /\ \/ ret = RetOk
         \/ ret.code = "INPUT_NOT_VALID" /\ DOMAIN ret.errors # {}
      /\ ret = RetOk <=>
           /\ ~(Truthy(Get(data, "tags")) /\ ~TagList)
           /\ DOMAIN form_errors(form, data) = {}

\* C8: with a missing or empty url and the other fields valid,
\* ApiBookmarkCreateForm returns INPUT_NOT_VALID with a 'url' error, while
\* ApiBookmarkEditForm and ApiBookmarkRangeEditForm return (None, None).
C8_UrlRequiredOnCreateOnly ==
    (Called /\ form # ApiTagForm /\ UrlMissingOrEmpty
        /\ \/ TagsOmitted
           \/ TagList /\ \A i \in DOMAIN TagItems : IsPlainTag(TagItems[i]))
    => /\ form = ApiBookmarkCreateForm => InvalidOn("url")
       /\ form # ApiBookmarkCreateForm => ret = RetOk

C8_Witness ==
    /\ Called /\ form = ApiBookmarkEditForm /\ ret = RetOk
    /\ data.url = Top(PyStr(<<>>))
    /\ data.tags = PyList(<<PyStr(<<"a">>)>>)

\* C9: a range-edit call that returns an error never assigns tags_in, on any
\* call of a sequence on the same instance.
C9_ErrorLeavesTagsIn ==
    [][(calls' = calls + 1 /\ form = ApiBookmarkRangeEditForm
          /\ ret'.code = "INPUT_NOT_VALID")
       => tags_in' = tags_in]_vars

\* C10: on a range-edit form tags_in is None exactly when tags_str is None,
\* and otherwise it is a sign character followed by the current tags_str.
C10_TagsInAgreesWithTagsStr ==
    form = ApiBookmarkRangeEditForm =>
      /\ tags_in.t = "None" <=> tags_str.t = "None"
      /\ tags_str.t = "str" =>
           tags_in \in {PyStr(<<"+">> \o tags_str.s), PyStr(<<"-">> \o tags_str.s)}

====
